---- MODULE Spec2Model ----
(***************************************************************************)
(* The User-ID subsystem of pandevice (src/pandevice/userid.py): the       *)
(* uid-message builder, its batch state and its calls to the firewall.     *)
(*                                                                         *)
(* A uid-message is a record [version, type, payload]; the payload is the  *)
(* sequence of its section elements in document order, a section is        *)
(* [tag, children], a login/logout child is [name, ip] and a               *)
(* register/unregister child is [ip, tag] where tag is the sequence of the *)
(* texts of the <member> elements under the entry's <tag> element.         *)
(* A tag string is a sequence of characters, so that prefix+t is \o.       *)
(***************************************************************************)
EXTENDS Integers, Sequences, FiniteSets

VARIABLES
    prefix,             \* self.prefix
    ignore_dup_errors,  \* self.ignore_dup_errors
    _uidmessage,        \* self._uidmessage, the empty message template
    _batch,             \* self._batch
    _batch_uidmessage,  \* self._batch_uidmessage
    calls,              \* history: the mutation calls made in batch mode since the last batch_start
    last                \* history: what the last public call did (see Observe)

vars == <<prefix, ignore_dup_errors, _uidmessage, _batch, _batch_uidmessage, calls, last>>

-----------------------------------------------------------------------------
(* Bounds and input alphabets *)

\* most mutation calls accumulated in one batch
MaxBatchCalls == 2

\* arguments of login/logout: (user, ip)
UserPairs == { <<"u1", "ip1">> }

\* instance prefixes
Prefixes == {<< >>, <<"g">>}

\* users arguments of logins/logouts: lists of (user, ip) pairs
UserLists ==
    { << >>,
      << <<"u1", "ip2">>, <<"u1", "ip1">> >> }

\* arguments of register/unregister: (ip, tags), tags one string or a list of strings
TagCalls ==
    { <<"ip1", [str |-> FALSE, val |-> << <<"b">>, <<"a">>, <<"b">> >>]>>,
      <<"ip2", [str |-> TRUE,  val |-> << <<"a">> >>]>> }

\* an optional argument that was not given
None == [none |-> TRUE]

\* calls of get_registered_ip/clear_registered_ip: the arguments ip, tags (None,
\* one string or a list of strings) and prefix (None or a string), with the
\* ./result/entry elements the firewall answers the query with
Queries ==
    { [ip |-> None, tags |-> None, prefix |-> None, entries |-> << >>],
      [ip |-> None, tags |-> None, prefix |-> None,
       entries |-> << [ip |-> "ip1", tag |-> << <<"g", "a">>, <<"b">> >>],
                      [ip |-> "ip2", tag |-> << <<"a">> >>] >>],
      [ip |-> [none |-> FALSE, str |-> TRUE, val |-> <<"ip1">>], tags |-> None,
       prefix |-> [none |-> FALSE, val |-> << >>],
       entries |-> << [ip |-> "ip1", tag |-> << <<"g", "a">>, <<"b">> >>],
                      [ip |-> "ip2", tag |-> << <<"a">> >>] >>],
      [ip |-> None, tags |-> [none |-> FALSE, str |-> FALSE, val |-> << <<"a">>, <<"b">> >>],
       prefix |-> None,
       entries |-> << [ip |-> "ip2", tag |-> << <<"g", "b">>, <<"g", "a">> >>] >>] }

\* most ./result/entry elements in an answer to the query
MaxEntries == 2

\* the ./result/entry elements an answer may hold: an address with its tags
\* (none, tags with and without the prefix, in any order)
EntryValues ==
    { [ip |-> i, tag |-> t] :
        i \in {"ip1", "ip2"},
        t \in { << >>, << <<"a">> >>, << <<"g", "a">>, <<"g", "b">> >>,
                 << <<"g", "b">>, <<"a">>, <<"g", "a">> >> } }

\* every call of get_registered_ip: ip and tags not given, one string, a list
\* or an empty list; prefix not given, empty or not; the answer any sequence of
\* entries, an address named once, more than once or not at all
AnyQueries ==
    { [ip |-> i, tags |-> t, prefix |-> pr, entries |-> e] :
        i \in { None, [none |-> FALSE, str |-> TRUE, val |-> <<"ip1">>],
                 [none |-> FALSE, str |-> FALSE, val |-> <<"ip2", "ip3">>],
                 [none |-> FALSE, str |-> FALSE, val |-> << >>] },
        t \in { None, [none |-> FALSE, str |-> TRUE, val |-> << <<"a">> >>],
                 [none |-> FALSE, str |-> FALSE, val |-> << <<"a">>, <<"b">> >>],
                 [none |-> FALSE, str |-> FALSE, val |-> << >>] },
        pr \in { None, [none |-> FALSE, val |-> << >>], [none |-> FALSE, val |-> <<"g">>] },
        e \in UNION {[1..n -> EntryValues] : n \in 0..MaxEntries} }

\* str(e) of the errors the firewall may raise, word by word
Messages ==
    { <<"tag", "already", "exists,", "ignore">>,
      <<"tag", "does", "not", "exist,", "ignore", "unreg">>,
      <<"already", "exists,", "ignore", "failed">> }

\* outcome of one call to the firewall: it returns, or raises with a message
Outcomes == {[ok |-> TRUE, message |-> << >>]} \cup {[ok |-> FALSE, message |-> m] : m \in Messages}

\* outcome of the registered-ip query: op() returns the answer, or raises
QueryOutcomes == {[ok |-> TRUE, message |-> << >>], [ok |-> FALSE, message |-> <<"timeout">>]}

\* uid-messages a caller may hand to send() directly
AdhocMessages ==
    { [version |-> "1.0", type |-> "update",
       payload |-> << [tag |-> "groups", children |-> << >>] >>] }

-----------------------------------------------------------------------------
(* Helpers: sequences, sets, ElementTree *)

Min(S) == CHOOSE m \in S : \A n \in S : m <= n
Max(S) == CHOOSE m \in S : \A n \in S : m >= n

Range(s) == {s[i] : i \in 1..Len(s)}

\* list(set): the elements of S, each once, in the order iteration yields them;
\* the order is a function of the set that nothing here depends on
list(S) == CHOOSE s \in [1..Cardinality(S) -> S] : \A e \in S : \E i \in 1..Cardinality(S) : s[i] = e

\* the suffix found anywhere in s
EndsWith_anywhere(s, suffix) ==
    \E k \in 1..Len(s) : \E n \in k..Len(s) : SubSeq(s, k, n) = suffix

\* str.endswith
EndsWith(s, suffix) ==
    /\ Len(s) >= Len(suffix)
    /\ SubSeq(s, Len(s) - Len(suffix) + 1, Len(s)) = suffix

\* str.startswith
StartsWith(s, pre) ==
    /\ Len(s) >= Len(pre)
    /\ SubSeq(s, 1, Len(pre)) = pre

\* pandevice.string_or_list: a string becomes a one-element list
string_or_list(arg) == arg.val

\* pandevice.string_or_list_or_none: None becomes the empty list
string_or_list_or_none(arg) == IF arg.none THEN << >> ELSE string_or_list(arg)

\* Element.find(tag) on the children of an element: index of the first child
\* with that tag, 0 for None
find(children, tag) ==
    LET idx == {i \in 1..Len(children) : children[i].tag = tag}
    IN  IF idx = {} THEN 0 ELSE Min(idx)

\* the search that never finds the entry of ip
find_tagelement_none(entries, ip) == 0

\* register.find("./entry[@ip='%s']/tag" % ip): index of the first entry with
\* that ip attribute (every entry has a tag child), 0 for None
find_tagelement(entries, ip) ==
    LET idx == {i \in 1..Len(entries) : entries[i].ip = ip}
    IN  IF idx = {} THEN 0 ELSE Min(idx)

-----------------------------------------------------------------------------
(* The uid-message and the firewall *)

\* the initial uid-message parsed in __init__
EmptyMessage == [version |-> "1.0", type |-> "update", payload |-> << >>]

\* copy.deepcopy of an element tree: an equal value that shares nothing
deepcopy(element) == element

\* suffixes of the error messages send() may ignore
DuplicateSuffix == <<"already", "exists,", "ignore">>
NonexistentSuffix == <<"does", "not", "exist,", "ignore", "unreg">>

\* the batch message handed out in and out of batch mode
_create_uidmessage_shared == [root |-> _batch_uidmessage, shared |-> TRUE]

\* UserId._create_uidmessage: the batch message itself (shared) in batch mode,
\* a fresh copy of the template otherwise
_create_uidmessage ==
    IF _batch
    THEN [root |-> _batch_uidmessage, shared |-> TRUE]
    ELSE [root |-> deepcopy(_uidmessage), shared |-> FALSE]

\* payload.find(section), ET.SubElement(payload, section) when it is None:
\* the payload with the section present, and the section's index
with_section(payload, section) ==
    LET i == find(payload, section)
    IN  IF i = 0
        THEN [payload |-> Append(payload, [tag |-> section, children |-> << >>]),
              at |-> Len(payload) + 1]
        ELSE [payload |-> payload, at |-> i]

\* the section's entries replaced by the new ones
add_entries_replacing(root, section, users) ==
    LET s == with_section(root.payload, section)
        entries == [k \in 1..Len(users) |-> [name |-> users[k][1], ip |-> users[k][2]]]
    IN  [root EXCEPT !.payload = [s.payload EXCEPT ![s.at].children = entries]]

\* the entries appended unless the section already holds an equal one
add_entries_unique(root, section, users) ==
    LET s == with_section(root.payload, section)
        entries == [k \in 1..Len(users) |-> [name |-> users[k][1], ip |-> users[k][2]]]
        new(e) == e \notin Range(s.payload[s.at].children)
    IN  [root EXCEPT !.payload =
            [s.payload EXCEPT ![s.at].children = @ \o SelectSeq(entries, new)]]

\* body of login/logins/logout/logouts: one entry per (user, ip) pair, appended
\* to the section in sequence order
add_entries(root, section, users) ==
    LET s == with_section(root.payload, section)
        entries == [k \in 1..Len(users) |-> [name |-> users[k][1], ip |-> users[k][2]]]
    IN  [root EXCEPT !.payload = [s.payload EXCEPT ![s.at].children = @ \o entries]]

\* body of register/unregister once the tags are listed: locate or create the
\* entry of ip, then one member per tag appended to its tag element
add_members(root, section, ip, tags) ==
    LET s == with_section(root.payload, section)
        entries == s.payload[s.at].children
        k == find_tagelement(entries, ip)
        entries1 == IF k = 0 THEN Append(entries, [ip |-> ip, tag |-> << >>]) ELSE entries
        k1 == IF k = 0 THEN Len(entries1) ELSE k
    IN  [root EXCEPT !.payload =
            [s.payload EXCEPT ![s.at].children = [entries1 EXCEPT ![k1].tag = @ \o tags]]]

\* the tags listed as they were passed
prefixed_tags_bare(arg) == list(Range(string_or_list(arg)))

\* tags = string_or_list(tags); tags = list(set(tags)); tags = [self.prefix+t ...]
prefixed_tags(arg) ==
    LET tags == list(Range(string_or_list(arg)))
    IN  [i \in 1..Len(tags) |-> prefix \o tags[i]]

\* the answers the firewall can give to a call that reaches it, if it does
Answers(reached) == IF reached THEN Outcomes ELSE {[ok |-> TRUE, message |-> << >>]}

\* send without the test of self._batch
send_call_unguarded(batching, uidmessage, out) ==
    IF out.ok
    THEN [submitted |-> <<uidmessage>>, answer |-> <<out>>, raised |-> FALSE, message |-> << >>]
    ELSE IF /\ ignore_dup_errors
            /\ \/ EndsWith(out.message, DuplicateSuffix)
               \/ EndsWith(out.message, NonexistentSuffix)
    THEN [submitted |-> <<uidmessage>>, answer |-> <<out>>, raised |-> FALSE, message |-> << >>]
    ELSE [submitted |-> <<uidmessage>>, answer |-> <<out>>, raised |-> TRUE, message |-> out.message]

\* UserId.send as called with self._batch = batching: what reaches
\* xapi.user_id and what is raised, when the firewall answers out
send_call(batching, uidmessage, out) ==
    IF batching
    THEN [submitted |-> << >>, answer |-> << >>, raised |-> FALSE, message |-> << >>]
    ELSE IF out.ok
    THEN [submitted |-> <<uidmessage>>, answer |-> <<out>>, raised |-> FALSE, message |-> << >>]
    ELSE IF /\ ignore_dup_errors
            /\ \/ EndsWith(out.message, DuplicateSuffix)
               \/ EndsWith(out.message, NonexistentSuffix)
    THEN [submitted |-> <<uidmessage>>, answer |-> <<out>>, raised |-> FALSE, message |-> << >>]
    ELSE [submitted |-> <<uidmessage>>, answer |-> <<out>>, raised |-> TRUE, message |-> out.message]

\* a call of a mutation method, as the caller made it (tags as a set)
Call(op, users, ip, tags) == [op |-> op, users |-> users, ip |-> ip, tags |-> tags]
NoCall == Call("none", << >>, "", {})

\* what a public call did: the calls it made to xapi.user_id (submitted) and
\* to op (queries), what it raised, the dict it returned or used (result);
\* was_batch and pending tell the state it was made in: the batch flag, and
\* whether the stored batch message held any entry; query is the call's
\* arguments and the answer to its query, for the two methods that make one
Observe(op, r, call, batched, queries, result) ==
    [op |-> op, was_batch |-> _batch,
     pending |-> \E i \in 1..Len(_batch_uidmessage.payload) :
                    _batch_uidmessage.payload[i].children # << >>,
     raised |-> r.raised, message |-> r.message,
     submitted |-> r.submitted, answer |-> r.answer, queries |-> queries,
     call |-> call, calls |-> batched, result |-> result, query |-> << >>]

\* a call that made none to xapi.user_id
NoSend == [submitted |-> << >>, answer |-> << >>, raised |-> FALSE, message |-> << >>]

-----------------------------------------------------------------------------
(* The public methods *)

\* the construction of the instance, observed
Constructed ==
    [op |-> "init", was_batch |-> FALSE, pending |-> FALSE, raised |-> FALSE,
     message |-> << >>, submitted |-> << >>, answer |-> << >>, queries |-> 0,
     call |-> NoCall, calls |-> << >>, result |-> << >>, query |-> << >>]

Init ==
    /\ prefix \in Prefixes
    /\ ignore_dup_errors \in BOOLEAN
    /\ _uidmessage = EmptyMessage
    /\ _batch = FALSE
    /\ _batch_uidmessage = deepcopy(EmptyMessage)
    /\ calls = << >>
    /\ last = Constructed

\* the message built kept as the batch message, in batch mode or not
mutation_storing(op, m, built, call, out) ==
    /\ _batch => Len(calls) < MaxBatchCalls
    /\ \E root \in {built} :
        /\ _batch_uidmessage' = root
        /\ last' = Observe(op, send_call(_batch, root, out), call, << >>, 0, << >>)
    /\ calls' = IF _batch THEN Append(calls, call) ELSE calls
    /\ UNCHANGED <<prefix, ignore_dup_errors, _uidmessage, _batch>>

\* a mutation method after its body built root: send(root), and what stays
mutation(op, m, built, call, out) ==
    /\ _batch => Len(calls) < MaxBatchCalls
    /\ \E root \in {built} :
        /\ _batch_uidmessage' = IF m.shared THEN root ELSE _batch_uidmessage
        /\ last' = Observe(op, send_call(_batch, root, out), call, << >>, 0, << >>)
    /\ calls' = IF _batch THEN Append(calls, call) ELSE calls
    /\ UNCHANGED <<prefix, ignore_dup_errors, _uidmessage, _batch>>

\* batch_start that keeps the stored batch message
batch_start_keeping ==
    /\ _batch' = TRUE
    /\ calls' = << >>
    /\ last' = Observe("batch_start", NoSend, NoCall, << >>, 0, << >>)
    /\ UNCHANGED <<prefix, ignore_dup_errors, _uidmessage, _batch_uidmessage>>

batch_start ==
    /\ _batch' = TRUE
    /\ _batch_uidmessage' = deepcopy(_uidmessage)
    /\ calls' = << >>
    /\ last' = Observe("batch_start", NoSend, NoCall, << >>, 0, << >>)
    /\ UNCHANGED <<prefix, ignore_dup_errors, _uidmessage>>

\* batch_end from the state where the message is root and self._batch is
\* batching: the values of _batch_uidmessage it can leave, with what it did
batch_ended(m, out) ==
    LET r == IF Len(m.root.payload) > 0 THEN send_call(FALSE, m.root, out) ELSE NoSend
    IN  [r |-> r,
         message |-> IF r.raised
                     THEN (IF m.shared THEN m.root ELSE _batch_uidmessage)
                     ELSE deepcopy(_uidmessage)]

\* batch_end that leaves the batch flag set when the send raises
batch_end_keeps_flag ==
    \E out \in Answers(Len(_create_uidmessage.root.payload) > 0) :
        LET e == batch_ended(_create_uidmessage, out)
        IN  /\ _batch' = IF e.r.raised THEN _batch ELSE FALSE
            /\ _batch_uidmessage' = e.message
            /\ calls' = IF e.r.raised THEN calls ELSE << >>
            /\ last' = Observe("batch_end", e.r, NoCall, calls, 0, << >>)
            /\ UNCHANGED <<prefix, ignore_dup_errors, _uidmessage>>

batch_end ==
    \E out \in Answers(Len(_create_uidmessage.root.payload) > 0) :
        LET e == batch_ended(_create_uidmessage, out)
        IN  /\ _batch' = FALSE
            /\ _batch_uidmessage' = e.message
            /\ calls' = << >>
            /\ last' = Observe("batch_end", e.r, NoCall, calls, 0, << >>)
            /\ UNCHANGED <<prefix, ignore_dup_errors, _uidmessage>>

send ==
    \E uidmessage \in AdhocMessages, out \in Answers(~_batch) :
        /\ last' = Observe("send", send_call(_batch, uidmessage, out), NoCall, << >>, 0, << >>)
        /\ UNCHANGED <<prefix, ignore_dup_errors, _uidmessage, _batch, _batch_uidmessage, calls>>

login ==
    \E u \in UserPairs, out \in Answers(~_batch) :
        LET m == _create_uidmessage
        IN  mutation("login", m, add_entries(m.root, "login", <<u>>),
                     Call("login", <<u>>, "", {}), out)

logins ==
    \E users \in UserLists, out \in Answers(~_batch) :
        LET m == _create_uidmessage
        IN  mutation("logins", m, add_entries(m.root, "login", users),
                     Call("logins", users, "", {}), out)

logout ==
    \E u \in UserPairs, out \in Answers(~_batch) :
        LET m == _create_uidmessage
        IN  mutation("logout", m, add_entries(m.root, "logout", <<u>>),
                     Call("logout", <<u>>, "", {}), out)

logouts ==
    \E users \in UserLists, out \in Answers(~_batch) :
        LET m == _create_uidmessage
        IN  mutation("logouts", m, add_entries(m.root, "logout", users),
                     Call("logouts", users, "", {}), out)

register ==
    \E c \in TagCalls, out \in Answers(~_batch) :
        LET m == _create_uidmessage
        IN  mutation("register", m, add_members(m.root, "register", c[1], prefixed_tags(c[2])),
                     Call("register", << >>, c[1], Range(string_or_list(c[2]))), out)

unregister ==
    \E c \in TagCalls, out \in Answers(~_batch) :
        LET m == _create_uidmessage
        IN  mutation("unregister", m, add_members(m.root, "unregister", c[1], prefixed_tags(c[2])),
                     Call("unregister", << >>, c[1], Range(string_or_list(c[2]))), out)

\* the dict get_registered_ip builds from the entries the query returned
registered(ip_arg, tags_arg, prefix_arg, entries) ==
    LET p == IF prefix_arg.none THEN prefix ELSE prefix_arg.val
        ip == Range(string_or_list_or_none(ip_arg))
        tags == {p \o t : t \in Range(string_or_list_or_none(tags_arg))}
        keep(tag) == /\ p = << >> \/ StartsWith(tag, p)
                     /\ tags = {} \/ tag \in tags
        c_tags(i) == SelectSeq(entries[i].tag, keep)
        added == {i \in 1..Len(entries) :
                    /\ ip = {} \/ entries[i].ip \in ip
                    /\ c_tags(i) # << >>}
    IN  [c_ip \in {entries[i].ip : i \in added} |->
            c_tags(Max({i \in added : entries[i].ip = c_ip}))]

\* the call that leaves batch mode when its query is answered
get_registered_ip_call_ending(a, q) ==
    /\ IF q.ok
       THEN /\ last' = [Observe("get_registered_ip", NoSend, NoCall, << >>, 1,
                                registered(a.ip, a.tags, a.prefix, a.entries))
                           EXCEPT !.query = a]
            /\ _batch' = FALSE
       ELSE /\ last' = [Observe("get_registered_ip",
                                [NoSend EXCEPT !.raised = TRUE, !.message = q.message],
                                NoCall, << >>, 1, << >>)
                           EXCEPT !.query = a]
            /\ _batch' = _batch
    /\ UNCHANGED <<prefix, ignore_dup_errors, _uidmessage, _batch_uidmessage, calls>>

\* get_registered_ip called with the arguments of a, the query answered by q
get_registered_ip_call(a, q) ==
    /\ IF q.ok
       THEN last' = [Observe("get_registered_ip", NoSend, NoCall, << >>, 1,
                             registered(a.ip, a.tags, a.prefix, a.entries))
                        EXCEPT !.query = a]
       ELSE last' = [Observe("get_registered_ip",
                             [NoSend EXCEPT !.raised = TRUE, !.message = q.message],
                             NoCall, << >>, 1, << >>)
                        EXCEPT !.query = a]
    /\ UNCHANGED <<prefix, ignore_dup_errors, _uidmessage, _batch, _batch_uidmessage, calls>>

get_registered_ip ==
    \E a \in Queries, q \in QueryOutcomes : get_registered_ip_call(a, q)

\* the loop left after the first address
unregister_first(root, ips, addresses) ==
    IF ips = << >>
    THEN root
    ELSE add_members(root, "unregister", ips[1],
                     prefixed_tags([str |-> FALSE, val |-> addresses[ips[1]]]))

\* for ip, tags in addresses.iteritems(): self.unregister(ip, tags), in batch
\* mode on root, the keys taken in the order ips
RECURSIVE unregister_each(_, _, _)
unregister_each(root, ips, addresses) ==
    IF ips = << >>
    THEN root
    ELSE unregister_each(
            add_members(root, "unregister", ips[1],
                        prefixed_tags([str |-> FALSE, val |-> addresses[ips[1]]])),
            Tail(ips), addresses)

\* clear_registered_ip with batch_start called before the query
clear_registered_ip_batch_first ==
    \E a \in Queries, q \in QueryOutcomes :
        IF q.ok
        THEN \E addresses \in {registered(a.ip, a.tags, a.prefix, a.entries)} :
             \E ips \in {list(DOMAIN addresses)} :
             \E root \in {unregister_each(deepcopy(_uidmessage), ips, addresses)} :
             \E out \in Answers(Len(root.payload) > 0) :
                LET batched == [i \in 1..Len(ips) |->
                                   Call("unregister", << >>, ips[i], Range(addresses[ips[i]]))]
                    e == batch_ended([root |-> root, shared |-> TRUE], out)
                IN  /\ _batch' = FALSE
                    /\ _batch_uidmessage' = e.message
                    /\ calls' = << >>
                    /\ last' = [Observe("clear_registered_ip", e.r, NoCall,
                                        batched, 1, addresses)
                                   EXCEPT !.query = a]
                    /\ UNCHANGED <<prefix, ignore_dup_errors, _uidmessage>>
        ELSE /\ last' = [Observe("clear_registered_ip",
                                 [NoSend EXCEPT !.raised = TRUE, !.message = q.message],
                                 NoCall, << >>, 1, << >>)
                            EXCEPT !.query = a]
             /\ _batch' = TRUE
             /\ _batch_uidmessage' = deepcopy(_uidmessage)
             /\ calls' = << >>
             /\ UNCHANGED <<prefix, ignore_dup_errors, _uidmessage>>

clear_registered_ip ==
    \E a \in Queries, q \in QueryOutcomes :
        IF q.ok
        THEN \E addresses \in {registered(a.ip, a.tags, a.prefix, a.entries)} :
             \E ips \in {list(DOMAIN addresses)} :
             \E root \in {unregister_each(deepcopy(_uidmessage), ips, addresses)} :
             \E out \in Answers(Len(root.payload) > 0) :
                LET batched == [i \in 1..Len(ips) |->
                                   Call("unregister", << >>, ips[i], Range(addresses[ips[i]]))]
                    e == batch_ended([root |-> root, shared |-> TRUE], out)
                IN  /\ _batch' = FALSE
                    /\ _batch_uidmessage' = e.message
                    /\ calls' = << >>
                    /\ last' = [Observe("clear_registered_ip", e.r, NoCall,
                                        batched, 1, addresses)
                                   EXCEPT !.query = a]
                    /\ UNCHANGED <<prefix, ignore_dup_errors, _uidmessage>>
        ELSE /\ last' = [Observe("clear_registered_ip",
                                 [NoSend EXCEPT !.raised = TRUE, !.message = q.message],
                                 NoCall, << >>, 1, << >>)
                            EXCEPT !.query = a]
             /\ UNCHANGED <<prefix, ignore_dup_errors, _uidmessage, _batch,
                            _batch_uidmessage, calls>>

Next ==
    \/ batch_start
    \/ batch_end
    \/ send
    \/ login
    \/ logins
    \/ logout
    \/ logouts
    \/ register
    \/ unregister
    \/ get_registered_ip
    \/ clear_registered_ip

Spec == Init /\ [][Next]_vars

\* a new instance, with the call of get_registered_ip it is about to receive
\* and the answer the query will get, any of AnyQueries
InitQuery ==
    /\ prefix \in Prefixes
    /\ ignore_dup_errors \in BOOLEAN
    /\ _uidmessage = EmptyMessage
    /\ _batch = FALSE
    /\ _batch_uidmessage = deepcopy(EmptyMessage)
    /\ calls = << >>
    /\ last \in {[Constructed EXCEPT !.query = a] : a \in AnyQueries}

\* that call of get_registered_ip, made or made again
get_registered_ip_query ==
    \E q \in QueryOutcomes : get_registered_ip_call(last.query, q)

\* get_registered_ip alone, over every call and answer of AnyQueries
SpecQuery == InitQuery /\ [][get_registered_ip_query]_vars

-----------------------------------------------------------------------------
(* Vocabulary of the properties *)

MutationOps == {"login", "logins", "logout", "logouts", "register", "unregister"}

\* the section a mutation method writes to
SectionOf(op) ==
    CASE op \in {"login", "logins"} -> "login"
      [] op \in {"logout", "logouts"} -> "logout"
      [] OTHER -> op

\* the children of a section of a uid-message, none when the section is absent
Children(uidmessage, section) ==
    LET i == find(uidmessage.payload, section)
    IN  IF i = 0 THEN << >> ELSE uidmessage.payload[i].children

Count(s, x) == Cardinality({i \in 1..Len(s) : s[i] = x})

\* the entries of all sections of a uid-message
RECURSIVE NumEntries(_)
NumEntries(payload) ==
    IF payload = << >> THEN 0 ELSE Len(payload[1].children) + NumEntries(Tail(payload))

\* the (user, ip) pairs the calls cs passed for a section, in call order
RECURSIVE UsersOf(_, _)
UsersOf(cs, section) ==
    IF cs = << >>
    THEN << >>
    ELSE (IF SectionOf(cs[1].op) = section THEN cs[1].users ELSE << >>)
         \o UsersOf(Tail(cs), section)

\* the tags the calls cs passed to register (or unregister) for ip
TagsOf(cs, op, ip) ==
    UNION {cs[i].tags : i \in {j \in 1..Len(cs) : cs[j].op = op /\ cs[j].ip = ip}}

\* uidmessage holds every entry the calls cs asked for, in its section
HoldsEntriesOf(uidmessage, cs) ==
    /\ \A section \in {"login", "logout"} :
        LET want == UsersOf(cs, section)
            have == Children(uidmessage, section)
        IN  \A k \in 1..Len(want) :
                Count(have, [name |-> want[k][1], ip |-> want[k][2]]) >= Count(want, want[k])
    /\ \A i \in 1..Len(cs) :
        cs[i].op \in {"register", "unregister"} =>
            \E k \in 1..Len(Children(uidmessage, cs[i].op)) :
                LET e == Children(uidmessage, cs[i].op)[k]
                IN  /\ e.ip = cs[i].ip
                    /\ \A t \in cs[i].tags : prefix \o t \in Range(e.tag)

\* uidmessage holds the entries of the one call c and nothing else
HoldsOnly(uidmessage, c) ==
    /\ Len(uidmessage.payload) = 1
    /\ uidmessage.payload[1].tag = SectionOf(c.op)
    /\ LET children == uidmessage.payload[1].children
       IN  IF c.op \in {"register", "unregister"}
           THEN /\ Len(children) = 1
                /\ children[1].ip = c.ip
                /\ Range(children[1].tag) = {prefix \o t : t \in c.tags}
                /\ Len(children[1].tag) = Cardinality(c.tags)
           ELSE children = [k \in 1..Len(c.users) |-> [name |-> c.users[k][1], ip |-> c.users[k][2]]]

\* an error message that names a duplicate registration or a missing tag
Benign(message) ==
    \E k \in 1..Len(message) :
        SubSeq(message, k, Len(message)) \in
            { <<"already", "exists,", "ignore">>,
              <<"does", "not", "exist,", "ignore", "unreg">> }

\* the last call reached the firewall's User-ID API and it answered with an error
Failed == last.answer # << >> /\ ~last.answer[1].ok

\* the last call raised the error of its query
QueryFailed == last.queries = 1 /\ last.raised /\ last.answer = << >>

-----------------------------------------------------------------------------
(* C1..C10 *)

\* C1: in the batch message every register and unregister entry holds, each
\* exactly once, the prefixed tags of all the calls made for its address since
\* batch_start.
C1_TagUnion ==
    _batch =>
        \A section \in {"register", "unregister"} :
            \A k \in 1..Len(Children(_batch_uidmessage, section)) :
                LET e == Children(_batch_uidmessage, section)[k]
                IN  /\ Range(e.tag) = {prefix \o t : t \in TagsOf(calls, section, e.ip)}
                    /\ \A i, j \in 1..Len(e.tag) : e.tag[i] = e.tag[j] => i = j

\* C2 as stated: no mutation call made in batch mode reaches the firewall, and
\* every batch_end that closes a batch makes exactly one submission, which holds
\* every entry accumulated since batch_start.
C2_BatchEndSendsOnce ==
    /\ (last.op \in MutationOps /\ last.was_batch) => last.submitted = << >>
    /\ (last.op = "batch_end" /\ last.was_batch) =>
            /\ Len(last.submitted) = 1
            /\ HoldsEntriesOf(last.submitted[1], last.calls)

\* C2 as amended: no mutation call made in batch mode reaches the firewall; a
\* batch_end that closes a batch in which at least one mutation call was made
\* makes exactly one submission, which holds every entry accumulated since
\* batch_start; a batch_end that closes a batch in which none was made makes no
\* submission.
C2_BatchAccumulates ==
    /\ (last.op \in MutationOps /\ last.was_batch) => last.submitted = << >>
    /\ (last.op = "batch_end" /\ last.was_batch /\ last.calls # << >>) =>
            /\ Len(last.submitted) = 1
            /\ HoldsEntriesOf(last.submitted[1], last.calls)
    /\ (last.op = "batch_end" /\ last.was_batch /\ last.calls = << >>) =>
            last.submitted = << >>

\* a batch of one login and one register was closed and went out in one submission
C2_Witness ==
    /\ last.op = "batch_end" /\ last.was_batch
    /\ Len(last.calls) = 2
    /\ last.calls[1].op = "login" /\ last.calls[2].op = "register"
    /\ Len(last.submitted) = 1
    /\ Len(Children(last.submitted[1], "login")) = 1
    /\ Len(Children(last.submitted[1], "register")) = 1

\* C3: a mutation call made outside batch mode makes exactly one submission, whose
\* message holds the entries of that call and nothing else.
C3_NonBatchImmediate ==
    (last.op \in MutationOps /\ ~last.was_batch) =>
        /\ Len(last.submitted) = 1
        /\ HoldsOnly(last.submitted[1], last.call)

\* a register outside batch mode was submitted while the entries of an earlier
\* batch were still stored
C3_Witness ==
    /\ last.op = "register" /\ ~last.was_batch
    /\ Len(last.submitted) = 1
    /\ Children(_batch_uidmessage, "register") # << >>

\* C4: batch_end reaches the firewall if and only if the pending message has at
\* least one entry in its sections.
C4_BatchEndSendsIffEntries ==
    (last.op = "batch_end" /\ last.was_batch) =>
        /\ last.submitted # << >> => NumEntries(last.submitted[1].payload) >= 1
        /\ (\E i \in 1..Len(last.calls) :
                last.calls[i].op \in {"register", "unregister"} \/ last.calls[i].users # << >>)
            => last.submitted # << >>

\* C5: after batch_end, returned or raised, the stored batch message is the empty
\* message.
C5_BatchEndClears ==
    last.op = "batch_end" => _batch_uidmessage = EmptyMessage

\* C6: after batch_end, returned or raised, the builder is not in batch mode, and
\* an error of the firewall that send does not ignore is raised to the caller.
C6_BatchEndLeavesBatchMode ==
    last.op = "batch_end" =>
        /\ ~_batch
        /\ (Failed /\ ~(ignore_dup_errors /\ Benign(last.answer[1].message))) =>
                (last.raised /\ last.message = last.answer[1].message)

\* a batch_end raised the firewall's error
C6_Witness ==
    last.op = "batch_end" /\ last.was_batch /\ Failed /\ last.raised /\ ~_batch

\* C7: when the firewall answers a submission with an error, the call returns
\* normally if the message ends in one of the two benign suffixes and
\* ignore_dup_errors is set, and raises that error otherwise.
C7_DuplicateErrorsIgnored ==
    Failed =>
        IF ignore_dup_errors /\ Benign(last.answer[1].message)
        THEN ~last.raised
        ELSE last.raised /\ last.message = last.answer[1].message

\* a mutation call outside batch mode returned although the firewall answered
\* its submission with a benign error
C7_Witness ==
    /\ Failed /\ Benign(last.answer[1].message)
    /\ last.op \in MutationOps /\ ~last.was_batch
    /\ ignore_dup_errors /\ ~last.raised

\* C8: send called in batch mode reaches nothing, raises nothing and changes
\* neither the batch flag nor the batch message, and a batch_end right after it
\* submits the batch message as it stood before the send.
C8_SendDroppedInBatch ==
    [][ /\ (_batch /\ last'.op = "send") =>
            /\ last'.submitted = << >> /\ ~last'.raised
            /\ _batch' = _batch /\ _batch_uidmessage' = _batch_uidmessage
        /\ (_batch /\ last.op = "send" /\ last'.op = "batch_end"
              /\ _batch_uidmessage.payload # << >>) =>
            last'.submitted = <<_batch_uidmessage>> ]_vars

\* send was called in a batch that holds entries
C8_Witness ==
    last.op = "send" /\ last.was_batch /\ _batch /\ _batch_uidmessage.payload # << >>

\* C9 as stated: clear_registered_ip makes exactly one query and, the query
\* answered, exactly one submission, however many addresses the query yielded.
C9_ClearOneQueryOneSend ==
    (last.op = "clear_registered_ip" /\ ~QueryFailed) =>
        last.queries = 1 /\ Len(last.submitted) = 1

\* C9 as amended: clear_registered_ip makes exactly one query; when the query
\* yields at least one address it makes exactly one submission, which holds an
\* unregister entry for every address yielded; when the query fails or yields no
\* address it makes no submission.
C9_ClearBatchesUnregisters ==
    last.op = "clear_registered_ip" =>
        /\ last.queries = 1
        /\ IF DOMAIN last.result # {}
           THEN /\ Len(last.submitted) = 1
                /\ {Children(last.submitted[1], "unregister")[k].ip :
                        k \in 1..Len(Children(last.submitted[1], "unregister"))}
                   = DOMAIN last.result
                /\ Len(Children(last.submitted[1], "unregister"))
                   = Cardinality(DOMAIN last.result)
           ELSE last.submitted = << >>

\* the query yielded two addresses and their unregisters went out in one submission
C9_Witness ==
    /\ last.op = "clear_registered_ip"
    /\ Cardinality(DOMAIN last.result) = 2
    /\ Len(last.submitted) = 1

\* C10: the unregister entries clear_registered_ip submits name exactly the
\* (address, tag) pairs get_registered_ip returned.
C10_ClearUnregistersReturnedTags ==
    (last.op = "clear_registered_ip" /\ last.submitted # << >>) =>
        LET entries == Children(last.submitted[1], "unregister")
        IN  UNION {{<<entries[k].ip, entries[k].tag[i]>> : i \in 1..Len(entries[k].tag)} :
                      k \in 1..Len(entries)}
            = UNION {{<<ip, last.result[ip][i]>> : i \in 1..Len(last.result[ip])} :
                        ip \in DOMAIN last.result}

-----------------------------------------------------------------------------
(* C11..C20 *)

\* the methods that build the message they submit
StructuredOps == MutationOps \cup {"batch_end", "clear_registered_ip"}

\* every section of the uid-message has at least one entry
NoEmptySection(uidmessage) ==
    \A i \in 1..Len(uidmessage.payload) : uidmessage.payload[i].children # << >>

\* C11: no message a mutation method, batch_end or clear_registered_ip submits,
\* and no batch message batch_end can be called on, has a section without an
\* entry.
C11_SectionsHaveEntries ==
    /\ (last.op \in StructuredOps /\ last.submitted # << >>) =>
            NoEmptySection(last.submitted[1])
    /\ _batch => NoEmptySection(_batch_uidmessage)

\* the entries of the section have pairwise different addresses
DistinctAddresses(uidmessage, section) ==
    LET entries == Children(uidmessage, section)
    IN  \A i, j \in 1..Len(entries) : entries[i].ip = entries[j].ip => i = j

\* C12: the stored batch message, whatever register and unregister calls were
\* made on it, has at most one register entry and at most one unregister entry
\* per address.
C12_OneEntryPerAddress ==
    \A section \in {"register", "unregister"} :
        DistinctAddresses(_batch_uidmessage, section)

\* two register calls for the same address were made in one batch, which holds
\* one register entry
C12_Witness ==
    /\ _batch /\ Len(calls) = 2
    /\ calls[1].op = "register" /\ calls[2].op = "register"
    /\ calls[1].ip = calls[2].ip
    /\ Len(Children(_batch_uidmessage, "register")) = 1

\* uidmessage holds the entries the calls cs supplied, in their sections, and
\* no other: the login and logout entries in call order, one register and
\* unregister entry for each address named, with the prefixed tags passed for it
ExactlyOf(uidmessage, cs) ==
    /\ \A i \in 1..Len(uidmessage.payload) :
            \E j \in 1..Len(cs) : SectionOf(cs[j].op) = uidmessage.payload[i].tag
    /\ \A section \in {"login", "logout"} :
            LET want == UsersOf(cs, section)
            IN  Children(uidmessage, section) =
                    [k \in 1..Len(want) |-> [name |-> want[k][1], ip |-> want[k][2]]]
    /\ \A section \in {"register", "unregister"} :
            LET entries == Children(uidmessage, section)
            IN  /\ {entries[k].ip : k \in 1..Len(entries)} =
                        {cs[j].ip : j \in {i \in 1..Len(cs) : cs[i].op = section}}
                /\ \A k \in 1..Len(entries) :
                        Range(entries[k].tag) =
                            {prefix \o t : t \in TagsOf(cs, section, entries[k].ip)}

\* C13: after batch_start the builder is in batch mode and the stored batch
\* message is the empty message; and whatever a later batch_end,
\* clear_registered_ip or mutation call submits holds the entries of the calls
\* made since the last batch_start (of that one call, outside batch mode) and
\* no other, hence none accumulated before it.
C13_BatchStartDiscards ==
    /\ last.op = "batch_start" =>
            _batch /\ _batch_uidmessage = EmptyMessage /\ calls = << >>
    /\ (last.op \in {"batch_end", "clear_registered_ip"} /\ last.submitted # << >>) =>
            ExactlyOf(last.submitted[1], last.calls)
    /\ (last.op \in MutationOps /\ last.submitted # << >>) =>
            ExactlyOf(last.submitted[1], <<last.call>>)

\* batch_start was called in a batch that held unsent entries
C13_Witness ==
    /\ last.op = "batch_start" /\ last.was_batch /\ last.pending
    /\ _batch /\ _batch_uidmessage = EmptyMessage

\* the message the last mutation call wrote its entries to
Written == IF last.was_batch THEN _batch_uidmessage ELSE last.submitted[1]

\* the last n elements of s
LastOf(s, n) == SubSeq(s, Len(s) - n + 1, Len(s))

\* C14: the members a register or unregister call adds to the entry of its
\* address are, for each tag t passed, prefix+t, once each and nothing else,
\* whether the caller is the user or clear_registered_ip.
C14_PrefixAppliedOnce ==
    /\ last.op \in {"register", "unregister"} =>
            LET entries == Children(Written, last.op)
                k == find_tagelement(entries, last.call.ip)
                n == Cardinality(last.call.tags)
            IN  /\ k # 0
                /\ Len(entries[k].tag) >= n
                /\ Range(LastOf(entries[k].tag, n)) = {prefix \o t : t \in last.call.tags}
    /\ (last.op = "clear_registered_ip" /\ last.submitted # << >>) =>
            LET entries == Children(last.submitted[1], "unregister")
            IN  \A k \in 1..Len(entries) :
                    entries[k].tag = [i \in 1..Len(entries[k].tag) |->
                                        prefix \o list(Range(last.result[entries[k].ip]))[i]]

\* a builder with a prefix registered two tags for an address that already had
\* an entry in the batch
C14_Witness ==
    /\ last.op = "register" /\ last.was_batch /\ _batch
    /\ prefix # << >>
    /\ Len(calls) = 2 /\ calls[1].op = "register" /\ calls[1].ip = last.call.ip
    /\ Cardinality(last.call.tags) = 2

\* the last call was a get_registered_ip that returned
Returned == last.op = "get_registered_ip" /\ ~last.raised

\* the prefix the last query filtered with: the one passed, else the instance's
EffectivePrefix == IF last.query.prefix.none THEN prefix ELSE last.query.prefix.val

\* the filters of the last query as sets, empty when not given or given empty
AddressFilter == IF last.query.ip.none THEN {} ELSE Range(last.query.ip.val)
TagFilter == IF last.query.tags.none THEN {} ELSE Range(last.query.tags.val)

\* the address passes the address filter
Passes(ip) == AddressFilter = {} \/ ip \in AddressFilter

\* the tag starts with the effective prefix and, under a tag filter, is the
\* prefix followed by one of the filter's tags
Survives(tag) ==
    /\ StartsWith(tag, EffectivePrefix)
    /\ TagFilter = {} \/ \E t \in TagFilter : tag = EffectivePrefix \o t

\* the surviving tags of all the entries for the address, in the answer's order
RECURSIVE SurvivingTags(_, _)
SurvivingTags(entries, ip) ==
    IF entries = << >>
    THEN << >>
    ELSE (IF entries[1].ip = ip THEN SelectSeq(entries[1].tag, Survives) ELSE << >>)
         \o SurvivingTags(Tail(entries), ip)

\* the addresses the answer names
Addresses(entries) == {entries[i].ip : i \in 1..Len(entries)}

\* C15: whatever the answer to the query, get_registered_ip returns the
\* addresses that pass the address filter and have a surviving tag, each with
\* the set of all its surviving tags.
C15_ReturnsSurvivingTags ==
    Returned =>
        /\ DOMAIN last.result =
                {ip \in Addresses(last.query.entries) :
                    Passes(ip) /\ SurvivingTags(last.query.entries, ip) # << >>}
        /\ \A ip \in DOMAIN last.result :
                Range(last.result[ip]) = Range(SurvivingTags(last.query.entries, ip))

\* C16: in batch mode the login entries of the batch message are the (user,
\* ip) pairs passed to login and logins since batch_start, in call order and
\* in the order of each users argument, repeated pairs repeated; likewise the
\* logout entries for logout and logouts.
C16_LoginOrderKept ==
    _batch =>
        \A section \in {"login", "logout"} :
            LET want == UsersOf(calls, section)
            IN  Children(_batch_uidmessage, section) =
                    [k \in 1..Len(want) |-> [name |-> want[k][1], ip |-> want[k][2]]]

\* logins with two pairs and then login with the second of them were batched:
\* the section holds three entries, the last two equal
C16_Witness ==
    /\ _batch /\ Len(calls) = 2
    /\ calls[1].op = "logins" /\ Len(calls[1].users) = 2
    /\ calls[2].op = "login" /\ calls[2].users[1] = calls[1].users[2]
    /\ Len(Children(_batch_uidmessage, "login")) = 3
    /\ Children(_batch_uidmessage, "login")[2] = Children(_batch_uidmessage, "login")[3]

\* the error the firewall answered the last submission with is one send ignores
Ignored == ignore_dup_errors /\ Benign(last.answer[1].message)

\* C17 as stated: a mutation call made outside batch mode raises whenever the
\* firewall answers its submission with an error, and, raised or returned,
\* leaves the batch flag, the stored batch message, the prefix and the empty
\* message template as they were.
C17_FailedCallRaises ==
    [][ (~_batch /\ last'.op \in MutationOps) =>
            /\ Failed' => last'.raised
            /\ UNCHANGED <<_batch, _batch_uidmessage, prefix, _uidmessage>> ]_vars

\* C17 as amended: a mutation call made outside batch mode raises the
\* firewall's error unless it is one send ignores, in which case it returns;
\* raised or returned, it leaves the batch flag, the stored batch message, the
\* prefix and the empty message template as they were.
C17_NonBatchedCallKeepsState ==
    [][ (~_batch /\ last'.op \in MutationOps) =>
            /\ Failed' => IF Ignored'
                          THEN ~last'.raised
                          ELSE last'.raised /\ last'.message = last'.answer[1].message
            /\ UNCHANGED <<_batch, _batch_uidmessage, prefix, _uidmessage>> ]_vars

\* a mutation call outside batch mode raised the firewall's error while the
\* entries of an earlier batch were stored, and they still are
C17_Witness ==
    /\ last.op \in MutationOps /\ ~last.was_batch
    /\ Failed /\ last.raised
    /\ last.pending /\ _batch_uidmessage.payload # << >>
    /\ ~_batch

\* the last call was made outside batch mode while the stored batch message
\* held entries: those of a batch whose submission by batch_end had raised
AfterFailedBatch == ~last.was_batch /\ last.pending

\* C18: of the calls made while the entries of a failed batch are stored, a
\* batch_end submits nothing, batch_end and batch_start leave the empty message
\* stored, a mutation call submits its own entries and no other, and
\* clear_registered_ip its own unregisters and no other; and the batch_end of
\* any batch submits the entries of the calls made since its batch_start and
\* no other.
C18_FailedBatchNotResent ==
    /\ AfterFailedBatch =>
            /\ last.op = "batch_end" =>
                    last.submitted = << >> /\ _batch_uidmessage = EmptyMessage
            /\ last.op = "batch_start" => _batch_uidmessage = EmptyMessage
            /\ last.op \in MutationOps =>
                    /\ Len(last.submitted) = 1
                    /\ ExactlyOf(last.submitted[1], <<last.call>>)
            /\ (last.op = "clear_registered_ip" /\ last.submitted # << >>) =>
                    ExactlyOf(last.submitted[1], last.calls)
    /\ (last.op = "batch_end" /\ last.was_batch /\ last.submitted # << >>) =>
            ExactlyOf(last.submitted[1], last.calls)

\* batch_end was called again, without a batch_start, after the batch_end of a
\* batch with entries had raised: it submitted nothing
C18_Witness ==
    /\ last.op = "batch_end" /\ AfterFailedBatch
    /\ last.submitted = << >> /\ ~last.raised
    /\ _batch_uidmessage = EmptyMessage

\* C19: get_registered_ip, its query answered or failed, submits nothing and
\* leaves the batch flag and the stored batch message as they were, and a
\* batch_end right after it submits the batch message as it stood before the
\* call.
C19_QueryLeavesBatch ==
    [][ /\ last'.op = "get_registered_ip" =>
            /\ last'.submitted = << >>
            /\ last'.queries = 1
            /\ UNCHANGED <<_batch, _batch_uidmessage>>
        /\ (_batch /\ last.op = "get_registered_ip" /\ last'.op = "batch_end"
              /\ _batch_uidmessage.payload # << >>) =>
            last'.submitted = <<_batch_uidmessage>> ]_vars

\* get_registered_ip returned addresses in a batch that holds entries
C19_Witness ==
    /\ last.op = "get_registered_ip" /\ ~last.raised /\ DOMAIN last.result # {}
    /\ last.was_batch /\ last.pending
    /\ _batch /\ NumEntries(_batch_uidmessage.payload) > 0

\* C20: when its query fails, clear_registered_ip raises that failure, submits
\* nothing, and leaves the batch flag and the stored batch message as they
\* were.
C20_ClearQueryFailure ==
    [][ (last'.op = "clear_registered_ip" /\ QueryFailed') =>
            /\ last'.submitted = << >>
            /\ last'.message \in {q.message : q \in QueryOutcomes}
            /\ UNCHANGED <<_batch, _batch_uidmessage>> ]_vars

\* the query of clear_registered_ip failed in a batch that holds entries
C20_Witness ==
    /\ last.op = "clear_registered_ip" /\ QueryFailed
    /\ last.was_batch /\ last.pending
    /\ _batch /\ NumEntries(_batch_uidmessage.payload) > 0

====
